---- MODULE Spec2Model ----
(***************************************************************************)
(* Model of the report scripts TaskA, TaskB, TaskD, TaskE and TaskF.       *)
(*                                                                         *)
(* Text is modelled as a sequence of one-character strings, so that        *)
(* splitting, stripping, parsing and formatting are computed and not       *)
(* assumed.  A report line is a sequence of tokens: literal text is one    *)
(* token, formatted values are one token per character.                    *)
(*                                                                         *)
(* The scripts are independent programs.  Each has its own specification   *)
(* (SpecF, SpecReaders, SpecAgg, SpecFmt, SpecKwh, SpecPaid); the variables *)
(* of the other programs stay at their idle values.                        *)
(***************************************************************************)
EXTENDS Integers, Sequences, FiniteSets, TLC

VARIABLES
    \* ---- TaskF main(): src/TaskF/task_f.py
    data,          \* main: the list of Measurement returned by read_data
    pc,            \* where main() is blocked in input(): the menu or prompt
    choice,        \* main / _handle_post_report_menu: the last menu selection
    raw,           \* _prompt_date / _prompt_month: the last stripped input
    start_day,     \* create_daily_report: start_day
    end_day,       \* create_daily_report: end_day
    month,         \* create_monthly_report: month
    rows_list,     \* _build_summary_lines: the rows aggregated by the last report
    report_lines,  \* main: report_lines
    console,       \* what print_report_to_console printed last
    report_txt     \* the file report.txt

varsF == <<data, pc, choice, raw, start_day, end_day, month, rows_list,
           report_lines, console, report_txt>>

VARIABLES
    \* ---- read_data of TaskD, TaskE and TaskF
    reader,      \* whose read_data runs: "D", "E" or "F"
    file_lines,  \* the lines of the file, header first, without line ends
    file_open,   \* whether the file object is open
    rd_pc,       \* "start", "loop", "returned" or "raised"
    rd_next,     \* index in file_lines of the next line the loop reads
    rd_data      \* the list being built (data / measurements)

varsR == <<reader, file_lines, file_open, rd_pc, rd_next, rd_data>>

VARIABLES
    \* ---- TaskD calculate_daily_totals and TaskE summarize_week
    hourly,        \* the list of hourly rows both are given
    d_done,        \* TaskD: how many rows the loop has consumed
    daily_totals,  \* TaskD: daily_totals
    e_done,        \* TaskE: how many rows the loop has consumed
    daily          \* TaskE: daily

varsG == <<hourly, d_done, daily_totals, e_done, daily>>

VARIABLES
    \* ---- the date and weekday columns the scripts render
    the_day,        \* the date rendered
    a_finnish_day,  \* TaskA main: finnish_day
    b_date,         \* TaskB print_date: the text after "Date: "
    d_weekday,      \* TaskD main: weekday
    d_date_str,     \* TaskD main: date_str
    e_weekday,      \* TaskE format_row: weekday
    e_date_str,     \* TaskE format_row: date_str
    f_date          \* TaskF _format_date: the text returned

varsM == <<the_day, a_finnish_day, b_date, d_weekday, d_date_str, e_weekday,
           e_date_str, f_date>>

VARIABLES
    \* ---- the kWh columns of TaskD main and TaskE write_report
    k_script,        \* which script runs: "D" or "E"
    k_pc,            \* "start" or "done"
    d_day_totals,    \* TaskD main: daily_totals
    d_table,         \* TaskD main: the rows printed, in order
    week_summaries,  \* TaskE write_report: week_summaries
    summary_txt      \* TaskE write_report: what was written to the file

varsK == <<k_script, k_pc, d_day_totals, d_table, week_summaries, summary_txt>>

VARIABLES
    \* ---- TaskA main and TaskB main on one reservation file
    reservations_txt, \* the text of reservations.txt
    a_parts,      \* TaskA main: the fields of the reservation
    a_pc,         \* TaskA: 0 before the read, k the next print, -1 raised
    a_out,        \* TaskA: the lines printed
    reservation,  \* TaskB main: the fields of the reservation
    b_pc,         \* TaskB: 0 before the read, k the next print_*, -1 raised
    b_out         \* TaskB: the lines printed

varsP == <<reservations_txt, a_parts, a_pc, a_out, reservation, b_pc, b_out>>

vars == <<varsF, varsR, varsG, varsM, varsK, varsP>>

\* ------------------------------------------------------------------------
\* The state of a program that is not running
\* ------------------------------------------------------------------------
IdleF ==
    /\ data = <<>>
    /\ pc = "Off"
    /\ choice = <<>>
    /\ raw = <<>>
    /\ start_day = [year |-> 0, month |-> 0, day |-> 0]
    /\ end_day = [year |-> 0, month |-> 0, day |-> 0]
    /\ month = 0
    /\ rows_list = <<>>
    /\ report_lines = <<>>
    /\ console = <<>>
    /\ report_txt = [exists |-> FALSE, content |-> <<>>]

IdleR ==
    /\ reader = "Off"
    /\ file_lines = <<>>
    /\ file_open = FALSE
    /\ rd_pc = "Off"
    /\ rd_next = 1
    /\ rd_data = <<>>

IdleG ==
    /\ hourly = <<>>
    /\ d_done = 0
    /\ daily_totals = <<>>
    /\ e_done = 0
    /\ daily = <<>>

IdleM ==
    /\ the_day = [year |-> 0, month |-> 0, day |-> 0]
    /\ a_finnish_day = <<>>
    /\ b_date = <<>>
    /\ d_weekday = ""
    /\ d_date_str = <<>>
    /\ e_weekday = ""
    /\ e_date_str = <<>>
    /\ f_date = <<>>

IdleK ==
    /\ k_script = "Off"
    /\ k_pc = "Off"
    /\ d_day_totals = <<>>
    /\ d_table = <<>>
    /\ week_summaries = <<>>
    /\ summary_txt = [weeks |-> <<>>, total |-> <<>>]

IdleP ==
    /\ reservations_txt = <<>>
    /\ a_parts = <<>>
    /\ reservation = <<>>
    /\ a_pc = 0
    /\ a_out = <<>>
    /\ b_pc = 0
    /\ b_out = <<>>

\* ------------------------------------------------------------------------
\* Bounds of the model
\* ------------------------------------------------------------------------
MaxMeasurements == 2

\* ------------------------------------------------------------------------
\* Text helpers (Python str built-ins used by the scripts)
\* ------------------------------------------------------------------------
DigitChars == <<"0", "1", "2", "3", "4", "5", "6", "7", "8", "9">>

IsDigit(c) == \E i \in 1..10 : DigitChars[i] = c

DigitVal(c) == (CHOOSE i \in 1..10 : DigitChars[i] = c) - 1

AllDigits(s) == \A i \in 1..Len(s) : IsDigit(s[i])

RECURSIVE DigitsVal(_)
DigitsVal(s) ==
    IF s = <<>> THEN 0
    ELSE 10 * DigitsVal(SubSeq(s, 1, Len(s) - 1)) + DigitVal(s[Len(s)])

RECURSIVE NatToChars(_)
NatToChars(n) ==
    IF n < 10 THEN <<DigitChars[n + 1]>>
    ELSE NatToChars(n \div 10) \o <<DigitChars[(n % 10) + 1]>>

\* format spec 02d of a non-negative integer
Pad2(n) == IF n < 10 THEN <<"0">> \o NatToChars(n) ELSE NatToChars(n)

IsSpace(c) == c = " "

RECURSIVE LStrip(_)
LStrip(s) ==
    IF s # <<>> /\ IsSpace(s[1]) THEN LStrip(Tail(s)) ELSE s

RECURSIVE RStrip(_)
RStrip(s) ==
    IF s # <<>> /\ IsSpace(s[Len(s)]) THEN RStrip(SubSeq(s, 1, Len(s) - 1)) ELSE s

\* str.strip()
Strip(s) == RStrip(LStrip(s))

\* str.split(sep) for a one-character separator: never returns an empty list
RECURSIVE SplitFrom(_, _, _)
SplitFrom(s, sep, cur) ==
    IF s = <<>> THEN <<cur>>
    ELSE IF s[1] = sep THEN <<cur>> \o SplitFrom(Tail(s), sep, <<>>)
    ELSE SplitFrom(Tail(s), sep, Append(cur, s[1]))

Split(s, sep) == SplitFrom(s, sep, <<>>)

\* str.replace(old, new) for one-character old; new is a text (maybe empty)
RECURSIVE Replace(_, _, _)
Replace(s, old, new) ==
    IF s = <<>> THEN <<>>
    ELSE (IF s[1] = old THEN new ELSE <<s[1]>>) \o Replace(Tail(s), old, new)

\* ------------------------------------------------------------------------
\* Calendar dates (datetime.date)
\* ------------------------------------------------------------------------
Date(y, m, d) == [year |-> y, month |-> m, day |-> d]

NoDate == Date(0, 0, 0)

IsLeap(y) == (y % 4 = 0) /\ ((y % 100 # 0) \/ (y % 400 = 0))

DaysInMonth(y, m) ==
    IF m = 2 THEN (IF IsLeap(y) THEN 29 ELSE 28)
    ELSE IF m \in {4, 6, 9, 11} THEN 30 ELSE 31

IsValidDate(y, m, d) ==
    /\ y \in 1..9999
    /\ m \in 1..12
    /\ d >= 1
    /\ d <= DaysInMonth(y, m)

\* date.__lt__ and date.__le__
DateLT(a, b) ==
    \/ a.year < b.year
    \/ a.year = b.year /\ a.month < b.month
    \/ a.year = b.year /\ a.month = b.month /\ a.day < b.day

DateLE(a, b) == a = b \/ DateLT(a, b)

\* ------------------------------------------------------------------------
\* Number and date parsing used by the prompts and the readers
\* ------------------------------------------------------------------------
\* int(text): surrounding blanks, an optional sign, then at least one digit
IntBody(s) ==
    IF s # <<>> /\ s[1] \in {"+", "-"} THEN Tail(s) ELSE s

IsIntText(s) ==
    LET t == Strip(s) IN IntBody(t) # <<>> /\ AllDigits(IntBody(t))

IntVal(s) ==
    LET t == Strip(s) IN
    IF t[1] = "-" THEN 0 - DigitsVal(IntBody(t)) ELSE DigitsVal(IntBody(t))

\* datetime.strptime(raw, "%d.%m.%Y"): day and month of one or two digits,
\* a year of four digits, and the three must name a calendar date
StrptimeParts(s) == Split(s, ".")

\* variant: the day is not checked against the length of the month
StrptimeOK_NoCalendar(s) ==
    LET p == StrptimeParts(s) IN
    /\ Len(p) = 3
    /\ Len(p[1]) \in 1..2 /\ AllDigits(p[1]) /\ DigitsVal(p[1]) \in 1..31
    /\ Len(p[2]) \in 1..2 /\ AllDigits(p[2]) /\ DigitsVal(p[2]) \in 1..12
    /\ Len(p[3]) = 4 /\ AllDigits(p[3])

StrptimeOK(s) ==
    LET p == StrptimeParts(s) IN
    /\ Len(p) = 3
    /\ Len(p[1]) \in 1..2 /\ AllDigits(p[1]) /\ DigitsVal(p[1]) \in 1..31
    /\ Len(p[2]) \in 1..2 /\ AllDigits(p[2]) /\ DigitsVal(p[2]) \in 1..12
    /\ Len(p[3]) = 4 /\ AllDigits(p[3])
    /\ IsValidDate(DigitsVal(p[3]), DigitsVal(p[2]), DigitsVal(p[1]))

StrptimeDate(s) ==
    LET p == StrptimeParts(s) IN
    Date(DigitsVal(p[3]), DigitsVal(p[2]), DigitsVal(p[1]))

\* ------------------------------------------------------------------------
\* TaskF: formatting
\* ------------------------------------------------------------------------
\* f"{value:.2f}" of a value held in hundredths
Fixed2(v) ==
    LET a == IF v < 0 THEN 0 - v ELSE v IN
    (IF v < 0 THEN <<"-">> ELSE <<>>)
        \o NatToChars(a \div 100) \o <<".">> \o Pad2(a % 100)

_format_number(value) == Replace(Fixed2(value), ".", <<",">>)

_format_date(day) ==
    NatToChars(day.day) \o <<".">> \o NatToChars(day.month) \o <<".">>
        \o NatToChars(day.year)

month_name ==
    <<"January", "February", "March", "April", "May", "June", "July",
      "August", "September", "October", "November", "December">>

\* ------------------------------------------------------------------------
\* TaskF: building a report
\* ------------------------------------------------------------------------
RECURSIVE SumField(_, _)
SumField(rows, f) ==
    IF rows = <<>> THEN 0 ELSE rows[1][f] + SumField(Tail(rows), f)

\* a / n rounded to the nearest integer, ties to even (n > 0)
RoundDiv(a, n) ==
    LET q == a \div n
        r == a % n
    IN  IF 2 * r < n THEN q
        ELSE IF 2 * r > n THEN q + 1
        ELSE IF q % 2 = 0 THEN q ELSE q + 1

_build_summary_lines(rows) ==
    IF rows = <<>> THEN << <<"No data for the selected period.">> >>
    ELSE
        LET total_consumption == SumField(rows, "consumption_kwh")
            total_production == SumField(rows, "production_kwh")
            avg_temperature == RoundDiv(SumField(rows, "temperature_c"), Len(rows))
        IN  << <<"- Total consumption: ">> \o _format_number(total_consumption)
                   \o <<" kWh">>,
               <<"- Total production: ">> \o _format_number(total_production)
                   \o <<" kWh">>,
               <<"- Average temperature: ">> \o _format_number(avg_temperature)
                   \o <<" deg C">> >>

Separator == <<"-----------------------------------------------------">>

_build_range_report_lines(rows, s, e) ==
    << Separator,
       <<"Report for the period ">> \o _format_date(s) \o <<"-">> \o _format_date(e) >>
        \o _build_summary_lines(rows)

\* variant: the end date is excluded
RECURSIVE SelectRange_EndExclusive(_, _, _)
SelectRange_EndExclusive(rows, s, e) ==
    IF rows = <<>> THEN <<>>
    ELSE (IF DateLE(s, rows[1].day) /\ DateLT(rows[1].day, e)
          THEN <<rows[1]>> ELSE <<>>) \o SelectRange_EndExclusive(Tail(rows), s, e)

\* the list comprehension of create_daily_report
RECURSIVE SelectRange(_, _, _)
SelectRange(rows, s, e) ==
    IF rows = <<>> THEN <<>>
    ELSE (IF DateLE(s, rows[1].day) /\ DateLE(rows[1].day, e)
          THEN <<rows[1]>> ELSE <<>>) \o SelectRange(Tail(rows), s, e)

\* variant: the month is compared as an upper limit
RECURSIVE SelectMonth_UpTo(_, _)
SelectMonth_UpTo(rows, m) ==
    IF rows = <<>> THEN <<>>
    ELSE (IF rows[1].day.month <= m THEN <<rows[1]>> ELSE <<>>)
             \o SelectMonth_UpTo(Tail(rows), m)

\* the list comprehension of create_monthly_report
RECURSIVE SelectMonth(_, _)
SelectMonth(rows, m) ==
    IF rows = <<>> THEN <<>>
    ELSE (IF rows[1].day.month = m THEN <<rows[1]>> ELSE <<>>)
             \o SelectMonth(Tail(rows), m)

\* create_yearly_report passes every row to _build_summary_lines
SelectYear(rows) == rows

MonthlyReportLines(rows, m) ==
    << Separator, <<"Report for the month: ", month_name[m]>> >>
        \o _build_summary_lines(rows)

YearlyReportLines(rows) ==
    << <<"Report for the year: 2025">> >> \o _build_summary_lines(rows)

\* variant: the lines are written without their line ends
FileOf_NoLineEnd(lines) ==
    [exists |-> TRUE, content |-> [i \in 1..Len(lines) |-> lines[i]]]

\* write_report_to_file: report.txt is truncated, then each line and "\n"
FileOf(lines) ==
    [exists |-> TRUE, content |-> [i \in 1..Len(lines) |-> lines[i] \o <<"\n">>]]

NoFile == [exists |-> FALSE, content |-> <<>>]

\* ------------------------------------------------------------------------
\* TaskF: the inputs the model draws from
\* ------------------------------------------------------------------------
Measurement(y, m, d, h, c, p, t) ==
    [timestamp |-> [year |-> y, month |-> m, day |-> d, hour |-> h],
     day |-> Date(y, m, d),
     consumption_kwh |-> c, production_kwh |-> p, temperature_c |-> t]

\* hourly rows of 2025.csv; the numbers are in hundredths (1,25 is 125)
MeasurementRows ==
    { Measurement(2024, 12, 31, 23, 125, 0, -450),
      Measurement(2025, 1, 1, 0, 210, 5, -325),
      Measurement(2025, 1, 31, 12, 98, 40, 110),
      Measurement(2025, 2, 1, 7, 333, 12, 275),
      Measurement(2026, 1, 15, 9, 50, 1, -1000) }

RECURSIVE SeqsUpTo(_, _)
SeqsUpTo(S, n) ==
    IF n = 0 THEN {<<>>}
    ELSE LET shorter == SeqsUpTo(S, n - 1) IN
         shorter \cup {Append(q, x) : q \in {r \in shorter : Len(r) = n - 1}, x \in S}

DataSets == SeqsUpTo(MeasurementRows, MaxMeasurements)

\* what the user may type at a menu
MenuInputs ==
    { <<"1">>, <<"2">>, <<"3">>, <<"4">>, <<" ", "2", " ">>, <<"5">>, <<>> }

\* what the user may type at a date prompt
DateInputs ==
    { <<"1", ".", "1", ".", "2", "0", "2", "5">>,
      <<" ", "0", "1", ".", "0", "2", ".", "2", "0", "2", "5">>,
      <<"3", "1", ".", "0", "2", ".", "2", "0", "2", "5">>,
      <<"2", "0", "2", "5", "-", "0", "1", "-", "0", "1">>,
      <<>> }

\* what the user may type at the month prompt
MonthInputs ==
    { <<"1">>, <<"0", "2", " ">>, <<"0">>, <<"1", "3">>, <<"-", "1">>, <<"x">> }

\* ------------------------------------------------------------------------
\* TaskF: main() and the functions it calls, one action per input()
\* ------------------------------------------------------------------------
InitF ==
    /\ data \in DataSets
    /\ pc = "MainMenu"
    /\ choice = <<>>
    /\ raw = <<>>
    /\ start_day = NoDate
    /\ end_day = NoDate
    /\ month = 0
    /\ rows_list = <<>>
    /\ report_lines = <<>>
    /\ console = <<>>
    /\ report_txt = NoFile
    /\ IdleR /\ IdleG /\ IdleM /\ IdleK /\ IdleP

\* print_report_to_console(report_lines), then main enters
\* _handle_post_report_menu
PrintAndEnterPostMenu(rows, lines) ==
    /\ rows_list' = rows
    /\ report_lines' = lines
    /\ console' = lines
    /\ pc' = "PostReportMenu"

\* the locals of the create_*_report call that is starting
FreshReportLocals ==
    /\ raw' = <<>>
    /\ start_day' = NoDate
    /\ end_day' = NoDate
    /\ month' = 0

\* show_main_menu and the branch main takes on the selection
ShowMainMenu ==
    /\ pc = "MainMenu"
    /\ \E inp \in MenuInputs :
        /\ choice' = Strip(inp)
        /\ IF choice' = <<"1">> THEN
               /\ pc' = "StartDate"
               /\ FreshReportLocals
               /\ UNCHANGED <<rows_list, report_lines, console>>
           ELSE IF choice' = <<"2">> THEN
               /\ pc' = "Month"
               /\ FreshReportLocals
               /\ UNCHANGED <<rows_list, report_lines, console>>
           ELSE IF choice' = <<"3">> THEN
               /\ FreshReportLocals
               /\ PrintAndEnterPostMenu(SelectYear(data),
                                        YearlyReportLines(SelectYear(data)))
           ELSE IF choice' = <<"4">> THEN
               /\ pc' = "Exit"
               /\ UNCHANGED <<raw, start_day, end_day, month, rows_list,
                              report_lines, console>>
           ELSE
               /\ pc' = "MainMenu"
               /\ UNCHANGED <<raw, start_day, end_day, month, rows_list,
                              report_lines, console>>
    /\ UNCHANGED <<data, report_txt>>
    /\ UNCHANGED <<varsR, varsG, varsM, varsK, varsP>>

\* create_daily_report: _prompt_date for the start date
PromptStartDate ==
    /\ pc = "StartDate"
    /\ \E inp \in DateInputs :
        /\ raw' = Strip(inp)
        /\ IF StrptimeOK(raw') THEN
               /\ start_day' = StrptimeDate(raw')
               /\ pc' = "EndDate"
           ELSE
               /\ pc' = "StartDate"
               /\ UNCHANGED start_day
    /\ UNCHANGED <<data, choice, end_day, month, rows_list, report_lines,
                   console, report_txt>>
    /\ UNCHANGED <<varsR, varsG, varsM, varsK, varsP>>

\* create_daily_report: _prompt_date for the end date, the end >= start
\* loop, and on success the report
PromptEndDate ==
    /\ pc = "EndDate"
    /\ \E inp \in DateInputs :
        /\ raw' = Strip(inp)
        /\ IF ~StrptimeOK(raw') THEN
               /\ pc' = "EndDate"
               /\ UNCHANGED <<end_day, rows_list, report_lines, console>>
           ELSE IF DateLT(StrptimeDate(raw'), start_day) THEN
               /\ end_day' = StrptimeDate(raw')
               /\ pc' = "EndDate"
               /\ UNCHANGED <<rows_list, report_lines, console>>
           ELSE
               /\ end_day' = StrptimeDate(raw')
               /\ PrintAndEnterPostMenu(
                      SelectRange(data, start_day, end_day'),
                      _build_range_report_lines(
                          SelectRange(data, start_day, end_day'), start_day, end_day'))
    /\ UNCHANGED <<data, choice, start_day, month, report_txt>>
    /\ UNCHANGED <<varsR, varsG, varsM, varsK, varsP>>

\* create_monthly_report: _prompt_month, and on success the report
PromptMonth ==
    /\ pc = "Month"
    /\ \E inp \in MonthInputs :
        /\ raw' = Strip(inp)
        /\ IF IsIntText(raw') /\ IntVal(raw') >= 1 /\ IntVal(raw') <= 12 THEN
               /\ month' = IntVal(raw')
               /\ PrintAndEnterPostMenu(
                      SelectMonth(data, month'),
                      MonthlyReportLines(SelectMonth(data, month'), month'))
           ELSE
               /\ pc' = "Month"
               /\ UNCHANGED <<month, rows_list, report_lines, console>>
    /\ UNCHANGED <<data, choice, start_day, end_day, report_txt>>
    /\ UNCHANGED <<varsR, varsG, varsM, varsK, varsP>>

\* variant: an invalid selection falls back to the main menu
PostMenuTarget_FallsBack(c) ==
    IF c = <<"2">> THEN "MainMenu"
    ELSE IF c = <<"3">> THEN "Exit"
    ELSE IF c = <<"1">> THEN "PostReportMenu"
    ELSE "MainMenu"

\* _handle_post_report_menu: where the selection leads
PostMenuTarget(c) ==
    IF c = <<"2">> THEN "MainMenu"
    ELSE IF c = <<"3">> THEN "Exit"
    ELSE "PostReportMenu"

\* variant: the final else branch writes the report too
PostMenuWrites_OnElse(c) == c \notin {<<"2">>, <<"3">>}

\* _handle_post_report_menu: the selection that calls write_report_to_file
PostMenuWrites(c) == c = <<"1">>

\* _handle_post_report_menu: show_post_menu and the branch taken
ShowPostMenu ==
    /\ pc = "PostReportMenu"
    /\ \E inp \in MenuInputs :
        /\ choice' = Strip(inp)
        /\ pc' = PostMenuTarget(choice')
        /\ report_txt' = (IF PostMenuWrites(choice')
                          THEN FileOf(report_lines) ELSE report_txt)
    /\ UNCHANGED <<data, raw, start_day, end_day, month, rows_list,
                   report_lines, console>>
    /\ UNCHANGED <<varsR, varsG, varsM, varsK, varsP>>

NextF ==
    \/ ShowMainMenu
    \/ PromptStartDate
    \/ PromptEndDate
    \/ PromptMonth
    \/ ShowPostMenu

SpecF == InitF /\ [][NextF]_vars

\* ------------------------------------------------------------------------
\* The CSV readers: read_data of TaskD, TaskE and TaskF
\* ------------------------------------------------------------------------
MaxLines == 2

MinColumns == 7

MinColumnsF == 4

\* datetime.fromisoformat on "YYYY-MM-DD", optionally followed by one
\* separator character and "HH:MM" or "HH:MM:SS"
IsoDateOK(s) ==
    /\ Len(s) >= 10
    /\ AllDigits(SubSeq(s, 1, 4)) /\ s[5] = "-"
    /\ AllDigits(SubSeq(s, 6, 7)) /\ s[8] = "-"
    /\ AllDigits(SubSeq(s, 9, 10))
    /\ IsValidDate(DigitsVal(SubSeq(s, 1, 4)), DigitsVal(SubSeq(s, 6, 7)),
                   DigitsVal(SubSeq(s, 9, 10)))

IsoTimeOK(t) ==
    /\ Len(t) \in {5, 8}
    /\ AllDigits(SubSeq(t, 1, 2)) /\ DigitsVal(SubSeq(t, 1, 2)) <= 23
    /\ t[3] = ":"
    /\ AllDigits(SubSeq(t, 4, 5)) /\ DigitsVal(SubSeq(t, 4, 5)) <= 59
    /\ Len(t) = 8 =>
          /\ t[6] = ":"
          /\ AllDigits(SubSeq(t, 7, 8)) /\ DigitsVal(SubSeq(t, 7, 8)) <= 59

IsoOK(s) ==
    /\ IsoDateOK(s)
    /\ \/ Len(s) = 10
       \/ Len(s) > 11 /\ IsoTimeOK(SubSeq(s, 12, Len(s)))

IsoValue(s) ==
    [year |-> DigitsVal(SubSeq(s, 1, 4)),
     month |-> DigitsVal(SubSeq(s, 6, 7)),
     day |-> DigitsVal(SubSeq(s, 9, 10)),
     hour |-> IF Len(s) = 10 THEN 0 ELSE DigitsVal(SubSeq(s, 12, 13))]

\* datetime.date()
DateOf(ts) == Date(ts.year, ts.month, ts.day)

\* float(text) on an optional sign, digits and at most one "."
FloatBody(s) == IntBody(Strip(s))

FloatOK(s) ==
    LET b == FloatBody(s)
        p == Split(b, ".")
    IN  /\ Len(p) \in 1..2
        /\ \A i \in 1..Len(p) : AllDigits(p[i])
        /\ \E i \in 1..Len(p) : p[i] # <<>>

\* the value of float(text) in hundredths; digits past the second decimal
\* are dropped, the model holding hundredths only
FloatHundredths(s) ==
    LET b == FloatBody(s)
        p == Split(b, ".")
        frac == IF Len(p) = 2 THEN p[2] ELSE <<>>
        f2 == SubSeq(frac \o <<"0", "0">>, 1, 2)
        v == 100 * DigitsVal(p[1]) + DigitsVal(f2)
    IN  IF Strip(s)[1] = "-" THEN 0 - v ELSE v

\* TaskF _parse_number
_parse_number_text(value) == Replace(Replace(value, " ", <<>>), ",", <<".">>)

_parse_number_ok(value) == FloatOK(_parse_number_text(value))

_parse_number(value) == FloatHundredths(_parse_number_text(value))

\* TaskD: parts = line.strip().split(';')
PartsD(line) == Split(Strip(line), ";")

\* TaskE: csv.reader(file, delimiter=";") on a line without quote
\* characters: an empty line is the empty row
PartsE(line) == IF line = <<>> THEN <<>> ELSE Split(line, ";")

\* TaskF: parts = [part.strip() for part in line.split(";")]
PartsF(line) ==
    LET p == Split(line, ";") IN [i \in 1..Len(p) |-> Strip(p[i])]

\* variant: a row of exactly the minimum number of columns is dropped too
EnoughColumnsD_OffByOne(parts) == Len(parts) > MinColumns

\* TaskD: if len(parts) >= 7
EnoughColumnsD(parts) == Len(parts) >= MinColumns

\* TaskE: if len(parts) >= 7
EnoughColumnsE(parts) == Len(parts) >= MinColumns

\* the conversions of one TaskD / TaskE row raise ValueError or not
RowConverts(parts) ==
    /\ IsoOK(parts[1])
    /\ \A i \in 2..7 : IsIntText(parts[i])

HourlyRow(parts) ==
    [timestamp |-> IsoValue(parts[1]),
     consumption_v1 |-> IntVal(parts[2]),
     consumption_v2 |-> IntVal(parts[3]),
     consumption_v3 |-> IntVal(parts[4]),
     production_v1 |-> IntVal(parts[5]),
     production_v2 |-> IntVal(parts[6]),
     production_v3 |-> IntVal(parts[7])]

MeasurementConverts(parts) ==
    /\ IsoOK(parts[1])
    /\ \A i \in 2..4 : _parse_number_ok(parts[i])

MeasurementOf(parts) ==
    [timestamp |-> IsoValue(parts[1]),
     day |-> DateOf(IsoValue(parts[1])),
     consumption_kwh |-> _parse_number(parts[2]),
     production_kwh |-> _parse_number(parts[3]),
     temperature_c |-> _parse_number(parts[4])]

\* ---- the files the model draws from
RECURSIVE JoinFields(_)
JoinFields(fields) ==
    IF Len(fields) = 0 THEN <<>>
    ELSE IF Len(fields) = 1 THEN fields[1]
    ELSE fields[1] \o <<";">> \o JoinFields(Tail(fields))

Stamp13 ==
    <<"2", "0", "2", "5", "-", "1", "0", "-", "1", "3", "T",
      "0", "0", ":", "0", "0", ":", "0", "0">>

Stamp14 ==
    <<"2", "0", "2", "5", "-", "1", "0", "-", "1", "4", "T",
      "0", "1", ":", "0", "0", ":", "0", "0">>

HeaderLine == <<"T", "i", "m", "e", ";", "c", "1">>

FileRows ==
    { \* seven columns
      JoinFields(<<Stamp13, <<"1", "2">>, <<"0">>, <<"7">>, <<"3">>, <<"4">>, <<"5">>>>),
      \* eight columns
      JoinFields(<<Stamp14, <<"2">>, <<"3">>, <<"1", "0">>, <<"0">>, <<"1">>, <<"6">>, <<"9">>>>),
      \* six columns
      JoinFields(<<Stamp13, <<"1">>, <<"2">>, <<"3">>, <<"4">>, <<"5">>>>),
      \* four columns with decimal commas
      JoinFields(<<Stamp14, <<"1", ",", "2", "5">>, <<"0", ",", "5">>, <<"-", "3", ",", "5">>>>),
      \* three columns, none of them a number
      JoinFields(<<<<"x">>, <<"y">>, <<"z">>>>),
      \* a blank line
      <<>>,
      \* seven columns, a malformed number
      JoinFields(<<Stamp13, <<"1">>, <<"x">>, <<"3">>, <<"4">>, <<"5">>, <<"6">>>>),
      \* seven columns, a malformed timestamp
      JoinFields(<<<<"1", "3", ".", "1", "0", ".", "2", "0", "2", "5">>,
                   <<"1">>, <<"2">>, <<"3">>, <<"4">>, <<"5">>, <<"6">>>>) }

\* the empty file, or a header and up to MaxLines rows
Files ==
    {<<>>} \cup {<<HeaderLine>> \o q : q \in SeqsUpTo(FileRows, MaxLines)}

InitReaders ==
    /\ reader \in {"D", "E", "F"}
    /\ file_lines \in Files
    /\ file_open = FALSE
    /\ rd_pc = "start"
    /\ rd_next = 1
    /\ rd_data = <<>>
    /\ IdleF /\ IdleG /\ IdleM /\ IdleK /\ IdleP

\* TaskD: open(filename), readline() skips the header
OpenD ==
    /\ reader = "D" /\ rd_pc = "start"
    /\ file_open' = TRUE
    /\ rd_next' = 2
    /\ rd_pc' = "loop"
    /\ UNCHANGED <<reader, file_lines, rd_data>>
    /\ UNCHANGED <<varsF, varsG, varsM, varsK, varsP>>

\* TaskD: one turn of "for line in file"
ReadRowD ==
    /\ reader = "D" /\ rd_pc = "loop" /\ rd_next <= Len(file_lines)
    /\ LET parts == PartsD(file_lines[rd_next]) IN
        IF EnoughColumnsD(parts) THEN
            IF RowConverts(parts) THEN
                /\ rd_data' = Append(rd_data, HourlyRow(parts))
                /\ rd_next' = rd_next + 1
                /\ UNCHANGED rd_pc
            ELSE
                \* ValueError leaves read_data; file.close() is not reached
                /\ rd_pc' = "raised"
                /\ UNCHANGED <<rd_data, rd_next>>
        ELSE
            /\ rd_next' = rd_next + 1
            /\ UNCHANGED <<rd_data, rd_pc>>
    /\ UNCHANGED <<reader, file_lines, file_open>>
    /\ UNCHANGED <<varsF, varsG, varsM, varsK, varsP>>

\* TaskD: the loop is over: file.close(); return data
CloseD ==
    /\ reader = "D" /\ rd_pc = "loop" /\ rd_next > Len(file_lines)
    /\ file_open' = FALSE
    /\ rd_pc' = "returned"
    /\ UNCHANGED <<reader, file_lines, rd_next, rd_data>>
    /\ UNCHANGED <<varsF, varsG, varsM, varsK, varsP>>

\* TaskE: with open(...), next(reader, None) skips the header
OpenE ==
    /\ reader = "E" /\ rd_pc = "start"
    /\ file_open' = TRUE
    /\ rd_next' = 2
    /\ rd_pc' = "loop"
    /\ UNCHANGED <<reader, file_lines, rd_data>>
    /\ UNCHANGED <<varsF, varsG, varsM, varsK, varsP>>

\* TaskE: one turn of "for parts in reader"
ReadRowE ==
    /\ reader = "E" /\ rd_pc = "loop" /\ rd_next <= Len(file_lines)
    /\ LET parts == PartsE(file_lines[rd_next]) IN
        IF EnoughColumnsE(parts) THEN
            IF RowConverts(parts) THEN
                /\ rd_data' = Append(rd_data, HourlyRow(parts))
                /\ rd_next' = rd_next + 1
                /\ UNCHANGED <<rd_pc, file_open>>
            ELSE
                \* ValueError leaves the with block, which closes the file
                /\ rd_pc' = "raised"
                /\ file_open' = FALSE
                /\ UNCHANGED <<rd_data, rd_next>>
        ELSE
            /\ rd_next' = rd_next + 1
            /\ UNCHANGED <<rd_data, rd_pc, file_open>>
    /\ UNCHANGED <<reader, file_lines>>
    /\ UNCHANGED <<varsF, varsG, varsM, varsK, varsP>>

\* TaskE: the loop is over: the with block closes the file; return data
ReturnE ==
    /\ reader = "E" /\ rd_pc = "loop" /\ rd_next > Len(file_lines)
    /\ file_open' = FALSE
    /\ rd_pc' = "returned"
    /\ UNCHANGED <<reader, file_lines, rd_next, rd_data>>
    /\ UNCHANGED <<varsF, varsG, varsM, varsK, varsP>>

\* TaskF: with open(...), readline(); an empty file returns at once
OpenF ==
    /\ reader = "F" /\ rd_pc = "start"
    /\ rd_next' = 2
    /\ IF file_lines = <<>> THEN
           /\ file_open' = FALSE
           /\ rd_pc' = "returned"
       ELSE
           /\ file_open' = TRUE
           /\ rd_pc' = "loop"
    /\ UNCHANGED <<reader, file_lines, rd_data>>
    /\ UNCHANGED <<varsF, varsG, varsM, varsK, varsP>>

\* TaskF: one turn of "for line in file"
ReadRowF ==
    /\ reader = "F" /\ rd_pc = "loop" /\ rd_next <= Len(file_lines)
    /\ LET line == Strip(file_lines[rd_next])
           parts == PartsF(line)
       IN
        IF line = <<>> \/ Len(parts) < MinColumnsF THEN
            /\ rd_next' = rd_next + 1
            /\ UNCHANGED <<rd_data, rd_pc, file_open>>
        ELSE IF MeasurementConverts(parts) THEN
            /\ rd_data' = Append(rd_data, MeasurementOf(parts))
            /\ rd_next' = rd_next + 1
            /\ UNCHANGED <<rd_pc, file_open>>
        ELSE
            \* ValueError leaves the with block, which closes the file
            /\ rd_pc' = "raised"
            /\ file_open' = FALSE
            /\ UNCHANGED <<rd_data, rd_next>>
    /\ UNCHANGED <<reader, file_lines>>
    /\ UNCHANGED <<varsF, varsG, varsM, varsK, varsP>>

\* TaskF: the loop is over: the with block closes the file; return
ReturnF ==
    /\ reader = "F" /\ rd_pc = "loop" /\ rd_next > Len(file_lines)
    /\ file_open' = FALSE
    /\ rd_pc' = "returned"
    /\ UNCHANGED <<reader, file_lines, rd_next, rd_data>>
    /\ UNCHANGED <<varsF, varsG, varsM, varsK, varsP>>

NextReaders ==
    \/ OpenD
    \/ ReadRowD
    \/ CloseD
    \/ OpenE
    \/ ReadRowE
    \/ ReturnE
    \/ OpenF
    \/ ReadRowF
    \/ ReturnF

SpecReaders == InitReaders /\ [][NextReaders]_vars

\* ------------------------------------------------------------------------
\* Daily totals: TaskD calculate_daily_totals and TaskE summarize_week
\* ------------------------------------------------------------------------
MaxHours == 3

Hourly(d, h, c1, c2, c3, p1, p2, p3) ==
    [timestamp |-> [year |-> 2025, month |-> 10, day |-> d, hour |-> h],
     consumption_v1 |-> c1, consumption_v2 |-> c2, consumption_v3 |-> c3,
     production_v1 |-> p1, production_v2 |-> p2, production_v3 |-> p3]

\* hourly rows as read_data returns them (Wh)
HourlyRows ==
    { Hourly(13, 0, 1, 2, 3, 4, 5, 6),
      Hourly(13, 1, 10, 20, 30, 40, 50, 60),
      Hourly(14, 0, 100, 0, 700, 0, 200, 1),
      Hourly(12, 23, 5, 5, 5, -5, 0, 9) }

ZeroTotals ==
    [consumption_v1 |-> 0, consumption_v2 |-> 0, consumption_v3 |-> 0,
     production_v1 |-> 0, production_v2 |-> 0, production_v3 |-> 0]

\* variant: production_v3 accumulates the production_v2 reading
AddHourD_WrongChannel(totals, row) ==
    LET day == DateOf(row.timestamp)
        known == IF day \in DOMAIN totals THEN totals ELSE totals @@ (day :> ZeroTotals)
    IN  [known EXCEPT ![day] =
            [consumption_v1 |-> @.consumption_v1 + row.consumption_v1,
             consumption_v2 |-> @.consumption_v2 + row.consumption_v2,
             consumption_v3 |-> @.consumption_v3 + row.consumption_v3,
             production_v1 |-> @.production_v1 + row.production_v1,
             production_v2 |-> @.production_v2 + row.production_v2,
             production_v3 |-> @.production_v3 + row.production_v2]]

\* TaskD calculate_daily_totals: the body of the loop
AddHourD(totals, row) ==
    LET day == DateOf(row.timestamp)
        known == IF day \in DOMAIN totals THEN totals ELSE totals @@ (day :> ZeroTotals)
    IN  [known EXCEPT ![day] =
            [consumption_v1 |-> @.consumption_v1 + row.consumption_v1,
             consumption_v2 |-> @.consumption_v2 + row.consumption_v2,
             consumption_v3 |-> @.consumption_v3 + row.consumption_v3,
             production_v1 |-> @.production_v1 + row.production_v1,
             production_v2 |-> @.production_v2 + row.production_v2,
             production_v3 |-> @.production_v3 + row.production_v3]]

\* TaskE summarize_week: the body of the loop
AddHourE(totals, row) ==
    LET day == DateOf(row.timestamp)
        known == IF day \notin DOMAIN totals
                 THEN (day :> ZeroTotals) @@ totals ELSE totals
    IN  [known EXCEPT
            ![day].consumption_v1 = @ + row.consumption_v1,
            ![day].consumption_v2 = @ + row.consumption_v2,
            ![day].consumption_v3 = @ + row.consumption_v3,
            ![day].production_v1 = @ + row.production_v1,
            ![day].production_v2 = @ + row.production_v2,
            ![day].production_v3 = @ + row.production_v3]

InitAgg ==
    /\ hourly \in SeqsUpTo(HourlyRows, MaxHours)
    /\ d_done = 0
    /\ daily_totals = <<>>
    /\ e_done = 0
    /\ daily = <<>>
    /\ IdleF /\ IdleR /\ IdleM /\ IdleK /\ IdleP

\* TaskD calculate_daily_totals: one turn of "for row in data"
CalcStepD ==
    /\ d_done < Len(hourly)
    /\ daily_totals' = AddHourD(daily_totals, hourly[d_done + 1])
    /\ d_done' = d_done + 1
    /\ UNCHANGED <<hourly, e_done, daily>>
    /\ UNCHANGED <<varsF, varsR, varsM, varsK, varsP>>

\* TaskE summarize_week: one turn of "for row in data"
SummStepE ==
    /\ e_done < Len(hourly)
    /\ daily' = AddHourE(daily, hourly[e_done + 1])
    /\ e_done' = e_done + 1
    /\ UNCHANGED <<hourly, d_done, daily_totals>>
    /\ UNCHANGED <<varsF, varsR, varsM, varsK, varsP>>

NextAgg ==
    \/ CalcStepD
    \/ SummStepE

SpecAgg == InitAgg /\ [][NextAgg]_vars

\* ------------------------------------------------------------------------
\* The date and weekday columns
\* ------------------------------------------------------------------------
\* date.toordinal()
DaysBeforeYear(y) ==
    (y - 1) * 365 + ((y - 1) \div 4) - ((y - 1) \div 100) + ((y - 1) \div 400)

RECURSIVE DaysBeforeMonth(_, _)
DaysBeforeMonth(y, m) ==
    IF m = 1 THEN 0 ELSE DaysBeforeMonth(y, m - 1) + DaysInMonth(y, m - 1)

ToOrdinal(d) == DaysBeforeYear(d.year) + DaysBeforeMonth(d.year, d.month) + d.day

\* date.weekday(): 0 is Monday, 6 is Sunday
Weekday(d) == (ToOrdinal(d) + 6) % 7

\* variant: the chain of comparisons starts at 1
get_finnish_weekday_FromOne(date_obj) ==
    LET weekday_number == Weekday(date_obj) IN
    IF weekday_number = 1 THEN "Maanantai"
    ELSE IF weekday_number = 2 THEN "Tiistai"
    ELSE IF weekday_number = 3 THEN "Keskiviikko"
    ELSE IF weekday_number = 4 THEN "Torstai"
    ELSE IF weekday_number = 5 THEN "Perjantai"
    ELSE IF weekday_number = 6 THEN "Lauantai"
    ELSE "Sunnuntai"

\* TaskD get_finnish_weekday
get_finnish_weekday(date_obj) ==
    LET weekday_number == Weekday(date_obj) IN
    IF weekday_number = 0 THEN "Maanantai"
    ELSE IF weekday_number = 1 THEN "Tiistai"
    ELSE IF weekday_number = 2 THEN "Keskiviikko"
    ELSE IF weekday_number = 3 THEN "Torstai"
    ELSE IF weekday_number = 4 THEN "Perjantai"
    ELSE IF weekday_number = 5 THEN "Lauantai"
    ELSE "Sunnuntai"

\* TaskE WEEKDAY_NAMES (a Python list: index 0 is element 1 here)
WEEKDAY_NAMES ==
    <<"Maanantai", "Tiistai", "Keskiviikko", "Torstai",
      "Perjantai", "Lauantai", "Sunnuntai">>

\* TaskE format_row: weekday = WEEKDAY_NAMES[day.weekday()]
WeekdayE(d) == WEEKDAY_NAMES[Weekday(d) + 1]

\* strftime("%d.%m.%Y")
StrftimeDMY(d) ==
    Pad2(d.day) \o <<".">> \o Pad2(d.month) \o <<".">> \o NatToChars(d.year)

\* TaskE format_row: f"{day.day:02d}.{day.month:02d}.{day.year}"
DateStrE(d) ==
    Pad2(d.day) \o <<".">> \o Pad2(d.month) \o <<".">> \o NatToChars(d.year)

\* the dates rendered: the week of 6.10.2025 (Monday) to 12.10.2025
\* (Sunday), and dates with one-digit and two-digit days and months
RenderedDates ==
    { Date(2025, 10, 6), Date(2025, 10, 7), Date(2025, 10, 8),
      Date(2025, 10, 9), Date(2025, 10, 10), Date(2025, 10, 11),
      Date(2025, 10, 12), Date(2025, 1, 1), Date(2025, 9, 30),
      Date(2024, 2, 29), Date(2025, 12, 31) }

InitFmt ==
    /\ the_day \in RenderedDates
    /\ a_finnish_day = <<>>
    /\ b_date = <<>>
    /\ d_weekday = ""
    /\ d_date_str = <<>>
    /\ e_weekday = ""
    /\ e_date_str = <<>>
    /\ f_date = <<>>
    /\ IdleF /\ IdleR /\ IdleG /\ IdleK /\ IdleP

\* TaskA main: finnish_day = day.strftime("%d.%m.%Y")
RenderA ==
    /\ a_finnish_day = <<>>
    /\ a_finnish_day' = StrftimeDMY(the_day)
    /\ UNCHANGED <<the_day, b_date, d_weekday, d_date_str, e_weekday, e_date_str, f_date>>
    /\ UNCHANGED <<varsF, varsR, varsG, varsK, varsP>>

\* TaskB print_date
RenderB ==
    /\ b_date = <<>>
    /\ b_date' = StrftimeDMY(the_day)
    /\ UNCHANGED <<the_day, a_finnish_day, d_weekday, d_date_str, e_weekday, e_date_str, f_date>>
    /\ UNCHANGED <<varsF, varsR, varsG, varsK, varsP>>

\* TaskD main: the weekday and the date of one row of the table
RenderD ==
    /\ d_date_str = <<>>
    /\ d_weekday' = get_finnish_weekday(the_day)
    /\ d_date_str' = StrftimeDMY(the_day)
    /\ UNCHANGED <<the_day, a_finnish_day, b_date, e_weekday, e_date_str, f_date>>
    /\ UNCHANGED <<varsF, varsR, varsG, varsK, varsP>>

\* TaskE format_row
RenderE ==
    /\ e_date_str = <<>>
    /\ e_weekday' = WeekdayE(the_day)
    /\ e_date_str' = DateStrE(the_day)
    /\ UNCHANGED <<the_day, a_finnish_day, b_date, d_weekday, d_date_str, f_date>>
    /\ UNCHANGED <<varsF, varsR, varsG, varsK, varsP>>

\* TaskF _format_date
RenderF ==
    /\ f_date = <<>>
    /\ f_date' = _format_date(the_day)
    /\ UNCHANGED <<the_day, a_finnish_day, b_date, d_weekday, d_date_str, e_weekday, e_date_str>>
    /\ UNCHANGED <<varsF, varsR, varsG, varsK, varsP>>

NextFmt ==
    \/ RenderA
    \/ RenderB
    \/ RenderD
    \/ RenderE
    \/ RenderF

SpecFmt == InitFmt /\ [][NextFmt]_vars

\* ------------------------------------------------------------------------
\* The kWh columns: TaskD main and TaskE format_row / write_report
\* ------------------------------------------------------------------------
WhPerKwh == 1000

\* the number of significant bits of a Python float
MantissaBits == 53

RECURSIVE BitLength(_)
BitLength(q) == IF q = 0 THEN 0 ELSE 1 + BitLength(q \div 2)

\* total / 1000 as a float is the binary expansion of the quotient cut to
\* MantissaBits significant bits and rounded to nearest, ties to even.  r is
\* the remainder of the division so far, last the last bit kept, need the
\* number of bits still to keep, started whether a 1 bit was seen.  The
\* result says where the float lies relative to the exact quotient.
RECURSIVE FloatSide(_, _, _, _)
FloatSide(r, last, need, started) ==
    LET bit == (2 * r) \div WhPerKwh
        rest == (2 * r) % WhPerKwh
    IN  IF r = 0 THEN "exact"
        ELSE IF need = 0 THEN
            (IF bit = 1 /\ (rest > 0 \/ last = 1) THEN "above" ELSE "below")
        ELSE IF ~started /\ bit = 0 THEN FloatSide(rest, 0, need, FALSE)
        ELSE FloatSide(rest, bit, need - 1, TRUE)

\* variant: the third decimal is cut off
KwhHundredths_Truncated(total) == total \div 10

\* the hundredths shown by f"{total / 1000:.2f}" for total >= 0: the float
\* is rounded to two decimals, an exact tie going to the even digit
KwhHundredths(total) ==
    LET q == total \div WhPerKwh
        side == FloatSide(total % WhPerKwh, q % 2, MantissaBits - BitLength(q),
                          q > 0)
        h == total \div 10
        third == total % 10
    IN  IF third < 5 THEN h
        ELSE IF third > 5 THEN h + 1
        ELSE IF side = "above" THEN h + 1
        ELSE IF side = "below" THEN h
        ELSE IF h % 2 = 0 THEN h ELSE h + 1

\* f"{total / 1000:.2f}"
Fixed2OfKwh(total) ==
    IF total < 0 THEN <<"-">> \o Fixed2(KwhHundredths(0 - total))
    ELSE Fixed2(KwhHundredths(total))

\* TaskD main: cons_v1_kwh = totals[...] / 1000 and
\* f"{cons_v1_kwh:.2f}".replace(".", ",")
KwhStrD(total) == Replace(Fixed2OfKwh(total), ".", <<",">>)

\* TaskE: format_number(summary[...] / 1000)
format_number(total) == Replace(Fixed2OfKwh(total), ".", <<",">>)

\* format spec >w: right-aligned in a field of width w
RECURSIVE PadLeft(_, _)
PadLeft(t, w) == IF Len(t) >= w THEN t ELSE PadLeft(<<" ">> \o t, w)

\* sorted(...) of a set of dates
RECURSIVE SortedDates(_)
SortedDates(S) ==
    IF S = {} THEN <<>>
    ELSE LET first == CHOOSE d \in S : \A e \in S : DateLE(d, e)
         IN  <<first>> \o SortedDates(S \ {first})

\* TaskD main: the row printed for one day
RowD(day, totals) ==
    [weekday |-> get_finnish_weekday(day),
     date_str |-> StrftimeDMY(day),
     cons |-> << PadLeft(KwhStrD(totals.consumption_v1), 6),
                 PadLeft(KwhStrD(totals.consumption_v2), 6),
                 PadLeft(KwhStrD(totals.consumption_v3), 6) >>,
     prod |-> << PadLeft(KwhStrD(totals.production_v1), 6),
                 PadLeft(KwhStrD(totals.production_v2), 6),
                 PadLeft(KwhStrD(totals.production_v3), 6) >>]

\* TaskE format_row
format_row(day, summary) ==
    [weekday |-> WeekdayE(day),
     date_str |-> DateStrE(day),
     cons |-> << PadLeft(format_number(summary.consumption_v1), 6),
                 PadLeft(format_number(summary.consumption_v2), 6),
                 PadLeft(format_number(summary.consumption_v3), 6) >>,
     prod |-> << PadLeft(format_number(summary.production_v1), 6),
                 PadLeft(format_number(summary.production_v2), 6),
                 PadLeft(format_number(summary.production_v3), 6) >>]

WEEK_NUMBERS == <<41, 42, 43>>

\* TaskE write_report: the rows written for one week
WeekRows(summary) ==
    LET days == SortedDates(DOMAIN summary) IN
    [k \in 1..Len(days) |-> format_row(days[k], summary[days[k]])]

\* TaskE write_report: what the loops add to total_cons[i] / total_prod[i]
RECURSIVE DaysSum(_, _, _)
DaysSum(summary, days, ch) ==
    IF days = <<>> THEN 0
    ELSE summary[days[1]][ch] + DaysSum(summary, Tail(days), ch)

RECURSIVE WeeksSum(_, _)
WeeksSum(summaries, ch) ==
    IF summaries = <<>> THEN 0
    ELSE DaysSum(summaries[1], SortedDates(DOMAIN summaries[1]), ch)
             + WeeksSum(Tail(summaries), ch)

\* " ".join of three texts
JoinSpace(t) == t[1] \o <<" ">> \o t[2] \o <<" ">> \o t[3]

\* TaskE write_report: the two lines under "Total for all weeks (kWh):"
TotalLines(summaries) ==
    << <<"Consumption: ">> \o JoinSpace(
           << format_number(WeeksSum(summaries, "consumption_v1")),
              format_number(WeeksSum(summaries, "consumption_v2")),
              format_number(WeeksSum(summaries, "consumption_v3")) >>),
       <<"Production:  ">> \o JoinSpace(
           << format_number(WeeksSum(summaries, "production_v1")),
              format_number(WeeksSum(summaries, "production_v2")),
              format_number(WeeksSum(summaries, "production_v3")) >>) >>

\* ---- the daily totals (Wh) the model draws from
DayTotals(c1, c2, c3, p1, p2, p3) ==
    [consumption_v1 |-> c1, consumption_v2 |-> c2, consumption_v3 |-> c3,
     production_v1 |-> p1, production_v2 |-> p2, production_v3 |-> p3]

DayTotalsSet ==
    { DayTotals(12340, 995, 25, 125, 0, 12346),
      DayTotals(1005, 375, 2675, 7, 999, 15),
      DayTotals(5, 994, 123456, 50, 1, 996) }

KwhDates == {Date(2025, 10, 13), Date(2025, 10, 14)}

\* a dict from dates to daily totals
WeekDicts == UNION {[S -> DayTotalsSet] : S \in SUBSET KwhDates}

InitKwh ==
    /\ k_script \in {"D", "E"}
    /\ k_pc = "start"
    /\ IF k_script = "D"
       THEN d_day_totals \in WeekDicts /\ week_summaries = <<>>
       ELSE d_day_totals = <<>>
            /\ week_summaries \in [1..Len(WEEK_NUMBERS) -> WeekDicts]
    /\ d_table = <<>>
    /\ summary_txt = [weeks |-> <<>>, total |-> <<>>]
    /\ IdleF /\ IdleR /\ IdleG /\ IdleM /\ IdleP

\* TaskD main: the table, one row per day in date order
PrintTableD ==
    /\ k_script = "D" /\ k_pc = "start"
    /\ LET all_dates == SortedDates(DOMAIN d_day_totals) IN
       d_table' = [k \in 1..Len(all_dates) |->
                      RowD(all_dates[k], d_day_totals[all_dates[k]])]
    /\ k_pc' = "done"
    /\ UNCHANGED <<k_script, d_day_totals, week_summaries, summary_txt>>
    /\ UNCHANGED <<varsF, varsR, varsG, varsM, varsP>>

\* TaskE write_report
WriteReportE ==
    /\ k_script = "E" /\ k_pc = "start"
    /\ summary_txt' =
          [weeks |-> [i \in 1..Len(week_summaries) |->
                         [week_num |-> WEEK_NUMBERS[i],
                          rows |-> WeekRows(week_summaries[i])]],
           total |-> TotalLines(week_summaries)]
    /\ k_pc' = "done"
    /\ UNCHANGED <<k_script, d_day_totals, d_table, week_summaries>>
    /\ UNCHANGED <<varsF, varsR, varsG, varsM, varsP>>

NextKwh ==
    \/ PrintTableD
    \/ WriteReportE

SpecKwh == InitKwh /\ [][NextKwh]_vars

\* ------------------------------------------------------------------------
\* TaskA main and TaskB main: the reservation printed line by line
\* ------------------------------------------------------------------------
\* str(n) of an integer
IntStr(n) == IF n < 0 THEN <<"-">> \o NatToChars(0 - n) ELSE NatToChars(n)

\* datetime.strptime(s, "%Y-%m-%d"): a year of four digits, month and day
\* of one or two digits, naming a calendar date
StrptimeYMD_OK(s) ==
    LET p == Split(s, "-") IN
    /\ Len(p) = 3
    /\ Len(p[1]) = 4 /\ AllDigits(p[1])
    /\ Len(p[2]) \in 1..2 /\ AllDigits(p[2])
    /\ Len(p[3]) \in 1..2 /\ AllDigits(p[3])
    /\ IsValidDate(DigitsVal(p[1]), DigitsVal(p[2]), DigitsVal(p[3]))

StrptimeYMD(s) ==
    LET p == Split(s, "-") IN Date(DigitsVal(p[1]), DigitsVal(p[2]), DigitsVal(p[3]))

\* datetime.strptime(s, "%H:%M"): hour 0..23 and minute 0..59 of one or two
\* digits
StrptimeHM_OK(s) ==
    LET p == Split(s, ":") IN
    /\ Len(p) = 2
    /\ Len(p[1]) \in 1..2 /\ AllDigits(p[1]) /\ DigitsVal(p[1]) <= 23
    /\ Len(p[2]) \in 1..2 /\ AllDigits(p[2]) /\ DigitsVal(p[2]) <= 59

\* time.strftime("%H.%M")
StrftimeHM(s) ==
    LET p == Split(s, ":") IN Pad2(DigitsVal(p[1])) \o <<".">> \o Pad2(DigitsVal(p[2]))

\* f"{price:.2f}".replace(".", ",") of a price in hundredths
PriceStr(v) == Replace(Fixed2(v), ".", <<",">>)

\* bool(s) of a str: every text but the empty one is true
bool(s) == s # <<>>

\* TaskA main: the k-th print needs fields that exist and convert
ConvertsA(k, p) ==
    /\ Len(p) >= (IF k <= 5 THEN k ELSE k - 1)
    /\ CASE k = 1 -> IsIntText(p[1])
         [] k = 3 -> StrptimeYMD_OK(p[3])
         [] k = 4 -> StrptimeHM_OK(p[4])
         [] k = 5 -> IsIntText(p[5])
         [] k = 6 -> FloatOK(p[6])
         [] OTHER -> TRUE

\* TaskA main: the k-th line printed
LineA(k, p) ==
    CASE k = 1 -> <<"Reservation number: ">> \o IntStr(IntVal(p[1]))
      [] k = 2 -> <<"Booker: ">> \o p[2]
      [] k = 3 -> <<"Date: ">> \o StrftimeDMY(StrptimeYMD(p[3]))
      [] k = 4 -> <<"Start time: ">> \o StrftimeHM(p[4])
      [] k = 5 -> <<"Number of hours: ">> \o IntStr(IntVal(p[5]))
      [] k = 6 -> <<"Hourly price: ">> \o PriceStr(FloatHundredths(p[6])) \o <<" €">>
      [] k = 7 -> <<"Total price: ">>
                      \o PriceStr(IntVal(p[5]) * FloatHundredths(p[6])) \o <<" €">>
      [] k = 8 -> <<"Paid: ", (IF bool(p[7]) THEN "Yes" ELSE "No")>>
      [] k = 9 -> <<"Location: ">> \o p[8]
      [] k = 10 -> <<"Phone: ">> \o p[9]
      [] k = 11 -> <<"Email: ">> \o p[10]

\* TaskB print_paid
print_paid(r) ==
    LET is_paid == r[7] = <<"T", "r", "u", "e">>
    IN  <<"Paid: ", (IF is_paid THEN "Yes" ELSE "No")>>

\* TaskB: the k-th print_* call needs fields that exist and convert
ConvertsB(k, r) ==
    /\ Len(r) >= (IF k <= 5 THEN k ELSE IF k = 6 THEN 6 ELSE k - 1)
    /\ CASE k = 1 -> IsIntText(r[1])
         [] k = 3 -> StrptimeYMD_OK(r[3])
         [] k = 4 -> StrptimeHM_OK(r[4])
         [] k = 5 -> IsIntText(r[5])
         [] k = 6 -> FloatOK(r[6])
         [] k = 7 -> IsIntText(r[5]) /\ FloatOK(r[6])
         [] OTHER -> TRUE

\* TaskB main: the line printed by the k-th print_* call
LineB(k, r) ==
    CASE k = 1 -> <<"Reservation number: ">> \o IntStr(IntVal(r[1]))
      [] k = 2 -> <<"Booker: ">> \o r[2]
      [] k = 3 -> <<"Date: ">> \o StrftimeDMY(StrptimeYMD(r[3]))
      [] k = 4 -> <<"Start time: ">> \o StrftimeHM(r[4])
      [] k = 5 -> <<"Number of hours: ">> \o IntStr(IntVal(r[5]))
      [] k = 6 -> Replace(<<"Hourly price: ">> \o Fixed2(FloatHundredths(r[6])),
                          ".", <<",">>) \o <<" €">>
      [] k = 7 -> Replace(<<"Total price: ">>
                              \o Fixed2(IntVal(r[5]) * FloatHundredths(r[6])),
                          ".", <<",">>) \o <<" €">>
      [] k = 8 -> print_paid(r)
      [] k = 9 -> <<"Venue: ">> \o r[8]
      [] k = 10 -> <<"Phone: ">> \o r[9]
      [] k = 11 -> <<"Email: ">> \o r[10]

NumPrints == 11

\* "|".join of the fields
RECURSIVE JoinBar(_)
JoinBar(fields) ==
    IF Len(fields) = 0 THEN <<>>
    ELSE IF Len(fields) = 1 THEN fields[1]
    ELSE fields[1] \o <<"|">> \o JoinBar(Tail(fields))

\* the texts of the paid field
PaidTexts ==
    { <<"T", "r", "u", "e">>, <<"F", "a", "l", "s", "e">>, <<"t", "r", "u", "e">>,
      <<"0">>, <<" ">>, <<>> }

\* the texts of the hours field
HoursTexts == { <<"2">>, <<"x">> }

ReservationLine(hours, paid) ==
    JoinBar(<< <<"1", "2", "3">>,
               <<"A", "n", "n", "a">>,
               <<"2", "0", "2", "5", "-", "1", "0", "-", "3", "1">>,
               <<"1", "0", ":", "0", "0">>,
               hours,
               <<"1", "9", ".", "9", "5">>,
               paid,
               <<"R", "o", "o", "m", " ", "A">>,
               <<"0", "4", "0", "1">>,
               <<"a", "@", "b">> >>) \o <<"\n">>

InitPaid ==
    /\ \E hours \in HoursTexts, paid \in PaidTexts :
          reservations_txt = ReservationLine(hours, paid)
    /\ a_parts = <<>>
    /\ reservation = <<>>
    /\ a_pc = 0 /\ a_out = <<>>
    /\ b_pc = 0 /\ b_out = <<>>
    /\ IdleF /\ IdleR /\ IdleG /\ IdleM /\ IdleK

\* TaskA main: f.read().strip() and split('|')
ReadA ==
    /\ a_pc = 0
    /\ a_parts' = Split(Strip(reservations_txt), "|")
    /\ a_pc' = 1
    /\ UNCHANGED <<reservations_txt, a_out, reservation, b_pc, b_out>>
    /\ UNCHANGED <<varsF, varsR, varsG, varsM, varsK>>

\* TaskA main: the next conversion and print, or the exception that ends
\* the program
PrintA ==
    /\ a_pc \in 1..NumPrints
    /\ IF ConvertsA(a_pc, a_parts)
       THEN a_out' = Append(a_out, LineA(a_pc, a_parts)) /\ a_pc' = a_pc + 1
       ELSE a_out' = a_out /\ a_pc' = -1
    /\ UNCHANGED <<reservations_txt, a_parts, reservation, b_pc, b_out>>
    /\ UNCHANGED <<varsF, varsR, varsG, varsM, varsK>>

\* TaskB main: f.read().strip() and split('|')
ReadB ==
    /\ b_pc = 0
    /\ reservation' = Split(Strip(reservations_txt), "|")
    /\ b_pc' = 1
    /\ UNCHANGED <<reservations_txt, a_parts, a_pc, a_out, b_out>>
    /\ UNCHANGED <<varsF, varsR, varsG, varsM, varsK>>

\* TaskB main: the next print_* call, or the exception that ends the program
PrintB ==
    /\ b_pc \in 1..NumPrints
    /\ IF ConvertsB(b_pc, reservation)
       THEN b_out' = Append(b_out, LineB(b_pc, reservation)) /\ b_pc' = b_pc + 1
       ELSE b_out' = b_out /\ b_pc' = -1
    /\ UNCHANGED <<reservations_txt, a_parts, a_pc, a_out, reservation>>
    /\ UNCHANGED <<varsF, varsR, varsG, varsM, varsK>>

NextPaid ==
    \/ ReadA
    \/ PrintA
    \/ ReadB
    \/ PrintB

SpecPaid == InitPaid /\ [][NextPaid]_vars

\* ------------------------------------------------------------------------
\* Properties of TaskF (checked under SpecF)
\* ------------------------------------------------------------------------
Prompts == {"StartDate", "EndDate", "Month"}

\* C1: the main loop is a state machine over MainMenu, PostReportMenu and
\* Exit.  Exit is entered only by '4' in MainMenu or '3' in PostReportMenu;
\* '1', '2', '3' in MainMenu lead through the report's prompts to
\* PostReportMenu, which is entered only with the report built and printed;
\* '2' in PostReportMenu leads back to MainMenu; any other input stays.
C1_Step ==
    /\ (pc' = "Exit") =>
          \/ pc = "MainMenu" /\ choice' = <<"4">>
          \/ pc = "PostReportMenu" /\ choice' = <<"3">>
    /\ (pc = "MainMenu" /\ choice' = <<"1">>) => pc' = "StartDate"
    /\ (pc = "MainMenu" /\ choice' = <<"2">>) => pc' = "Month"
    /\ (pc = "MainMenu" /\ choice' = <<"3">>) => pc' = "PostReportMenu"
    /\ (pc = "MainMenu" /\ choice' \notin {<<"1">>, <<"2">>, <<"3">>, <<"4">>})
          => pc' = "MainMenu"
    /\ (pc \in Prompts) => pc' \in Prompts \cup {"PostReportMenu"}
    /\ (pc # "PostReportMenu" /\ pc' = "PostReportMenu")
          => (report_lines' # <<>> /\ console' = report_lines')
    /\ (pc = "PostReportMenu" /\ choice' = <<"2">>) => pc' = "MainMenu"
    /\ (pc = "PostReportMenu" /\ choice' \notin {<<"2">>, <<"3">>})
          => pc' = "PostReportMenu"

C1_MenuStateMachine == [][C1_Step]_vars

\* the program has left the loop from PostReportMenu after a daily report
C1_Witness ==
    pc = "Exit" /\ choice = <<"3">> /\ start_day # NoDate /\ console # <<>>

\* the number of times x occurs in the sequence q
Count(q, x) == Cardinality({i \in 1..Len(q) : q[i] = x})

DateKey(d) == d.year * 10000 + d.month * 100 + d.day

\* C2: in the daily report the rows aggregated are exactly the rows of the
\* data whose day d satisfies start <= d <= end, start <= end.
C2_DailyRangeInclusive ==
    (pc = "PostReportMenu" /\ start_day # NoDate) =>
        /\ DateKey(start_day) <= DateKey(end_day)
        /\ \A r \in MeasurementRows :
              Count(rows_list, r) =
                  (IF DateKey(start_day) <= DateKey(r.day)
                          /\ DateKey(r.day) <= DateKey(end_day)
                   THEN Count(data, r) ELSE 0)

\* a daily report over 1.1.2025-1.2.2025 of a row dated on the end date and
\* a row dated after it
C2_Witness ==
    /\ pc = "PostReportMenu"
    /\ start_day = Date(2025, 1, 1)
    /\ end_day = Date(2025, 2, 1)
    /\ Len(data) = 2 /\ Len(rows_list) = 1
    /\ rows_list[1].day = end_day
    /\ \E i \in 1..Len(data) : data[i].day = Date(2026, 1, 15)

IsYearlyReport == report_lines # <<>> /\ report_lines[1] = <<"Report for the year: 2025">>

\* C3: the yearly report aggregates exactly the rows dated in 2025.
C3_YearlyOnly2025 ==
    (pc = "PostReportMenu" /\ IsYearlyReport) =>
        \A r \in MeasurementRows :
            Count(rows_list, r) = (IF r.day.year = 2025 THEN Count(data, r) ELSE 0)

\* C4: the monthly report for month m aggregates exactly the rows whose
\* date is in month m.
C4_MonthlyExactlyMonth ==
    (pc = "PostReportMenu" /\ month # 0) =>
        /\ month \in 1..12
        /\ \A r \in MeasurementRows :
              Count(rows_list, r) =
                  (IF r.day.month = month THEN Count(data, r) ELSE 0)

\* a report for January of a row dated 31.1.2025 and a row dated 1.2.2025
C4_Witness ==
    /\ pc = "PostReportMenu"
    /\ month = 1
    /\ Len(data) = 2 /\ Len(rows_list) = 1
    /\ rows_list[1].day = Date(2025, 1, 31)
    /\ \E i \in 1..Len(data) : data[i].day = Date(2025, 2, 1)

\* the texts of DateInputs and MonthInputs, stripped, that are no date in
\* dd.mm.yyyy form and no month in 1..12
BadDateTexts ==
    { <<"3", "1", ".", "0", "2", ".", "2", "0", "2", "5">>,
      <<"2", "0", "2", "5", "-", "0", "1", "-", "0", "1">>,
      <<>> }

BadMonthTexts == { <<"0">>, <<"1", "3">>, <<"-", "1">>, <<"x">> }

ReportUntouched ==
    /\ report_lines' = report_lines
    /\ console' = console
    /\ rows_list' = rows_list
    /\ report_txt' = report_txt

\* C10: bad input at a prompt repeats the prompt, ends nothing and builds
\* no report; a report is built only from a valid start date and a valid
\* end date with end >= start, or from a month in 1..12.
C10_Step ==
    /\ (pc \in Prompts) => pc' # "Exit"
    /\ (pc \in {"StartDate", "EndDate"} /\ raw' \in BadDateTexts)
          => (pc' = pc /\ ReportUntouched)
    /\ (pc = "EndDate" /\ raw' \notin BadDateTexts
            /\ DateKey(end_day') < DateKey(start_day))
          => (pc' = pc /\ ReportUntouched)
    /\ (pc = "Month" /\ raw' \in BadMonthTexts) => (pc' = pc /\ ReportUntouched)
    /\ (pc = "EndDate" /\ pc' = "PostReportMenu") =>
          /\ IsValidDate(start_day'.year, start_day'.month, start_day'.day)
          /\ IsValidDate(end_day'.year, end_day'.month, end_day'.day)
          /\ DateKey(start_day') <= DateKey(end_day')
    /\ (pc = "StartDate" /\ pc' # pc) =>
          /\ pc' = "EndDate"
          /\ IsValidDate(start_day'.year, start_day'.month, start_day'.day)
    /\ (pc = "Month" /\ pc' = "PostReportMenu") => month' \in 1..12

C10_BadInputReprompts == [][C10_Step]_vars

\* an end date before the start date was typed and the end prompt repeats
C10_Witness ==
    /\ pc = "EndDate"
    /\ end_day # NoDate
    /\ DateKey(end_day) < DateKey(start_day)

\* everything but the selection keeps its value
AllButChoiceUnchanged ==
    /\ pc' = pc
    /\ data' = data
    /\ raw' = raw
    /\ start_day' = start_day
    /\ end_day' = end_day
    /\ month' = month
    /\ rows_list' = rows_list
    /\ report_lines' = report_lines
    /\ console' = console
    /\ report_txt' = report_txt

\* C11: an invalid selection changes nothing but shows the same menu again:
\* in MainMenu any input other than '1'..'4' builds, prints and writes
\* nothing and stays in MainMenu; in PostReportMenu any input other than
\* '1'..'3' stays in PostReportMenu with the report lines and report.txt
\* unchanged.
C11_Step ==
    /\ (pc = "MainMenu" /\ choice' \notin {<<"1">>, <<"2">>, <<"3">>, <<"4">>})
          => AllButChoiceUnchanged
    /\ (pc = "PostReportMenu" /\ choice' \notin {<<"1">>, <<"2">>, <<"3">>})
          => AllButChoiceUnchanged

C11_InvalidSelectionFrame == [][C11_Step]_vars

\* an invalid selection was made in PostReportMenu after report.txt was
\* written
C11_Witness ==
    /\ pc = "PostReportMenu"
    /\ choice = <<"5">>
    /\ report_txt.exists
    /\ report_lines # <<>>

\* the lines of the console, each followed by a newline
IsConsoleWithLineEnds(content) ==
    /\ Len(content) = Len(console)
    /\ \A i \in 1..Len(content) :
          /\ Len(content[i]) = Len(console[i]) + 1
          /\ SubSeq(content[i], 1, Len(console[i])) = console[i]
          /\ content[i][Len(content[i])] = "\n"

\* C14: report.txt is written only by '1' in PostReportMenu, the program
\* stays in PostReportMenu after writing, the file then holds exactly the
\* lines of the report printed last, each followed by a newline and nothing
\* of its earlier content, and a new report leaves the file as it is until
\* '1' is selected.
C14_Step ==
    /\ (report_txt' # report_txt) => (pc = "PostReportMenu" /\ choice' = <<"1">>)
    /\ (pc = "PostReportMenu" /\ choice' = <<"1">>) =>
          /\ pc' = "PostReportMenu"
          /\ console' = console
          /\ report_txt'.exists
          /\ IsConsoleWithLineEnds(report_txt'.content)
    /\ (pc # "PostReportMenu") => report_txt' = report_txt

C14_ReportFile == [][C14_Step]_vars

\* report.txt holds a report of other length than the one printed last
C14_Witness ==
    /\ pc = "PostReportMenu"
    /\ report_txt.exists
    /\ console # <<>>
    /\ Len(report_txt.content) # Len(console)

\* ------------------------------------------------------------------------
\* Properties of the readers (checked under SpecReaders)
\* ------------------------------------------------------------------------
\* the number of semicolon-separated fields of a line
NFields(line) == 1 + Cardinality({i \in 1..Len(line) : line[i] = ";"})

\* the data rows (after the header) of at least 7 fields among the first
\* n lines of the file
LongRows(n) == {i \in 2..n : NFields(file_lines[i]) >= 7}

KthLongRow(n, k) ==
    CHOOSE i \in LongRows(n) : Cardinality({j \in LongRows(n) : j < i}) = k - 1

\* rd_data holds one record per long row among the first n lines, in
\* file order
OneRecordPerLongRow(n) ==
    /\ Len(rd_data) = Cardinality(LongRows(n))
    /\ \A k \in 1..Len(rd_data) :
          rd_data[k] = HourlyRow(Split(file_lines[KthLongRow(n, k)], ";"))

\* C6: in the TaskD and TaskE readers a data row of fewer than 7 fields is
\* skipped: it raises no error, adds no record and does not stop the
\* reading; the list returned holds one record per data row of at least 7
\* fields, in file order.
C6_ShortRowsSkipped ==
    (reader \in {"D", "E"} /\ rd_pc # "start") =>
        /\ OneRecordPerLongRow(rd_next - 1)
        /\ (rd_pc = "raised") =>
              (rd_next <= Len(file_lines) /\ NFields(file_lines[rd_next]) >= 7)
        /\ (rd_pc = "returned") =>
              (rd_next = Len(file_lines) + 1 \/ file_lines = <<>>)

\* TaskE has returned one record from a file whose first data row is short
C6_Witness ==
    /\ reader = "E" /\ rd_pc = "returned"
    /\ Len(file_lines) = 3
    /\ NFields(file_lines[2]) < 7
    /\ Len(rd_data) = 1

\* C9: a reader that has been left, by return or by an exception, has
\* closed its file.
C9_ClosedOnEveryExit ==
    (rd_pc \in {"returned", "raised"}) => ~file_open

\* ------------------------------------------------------------------------
\* Properties of the daily totals (checked under SpecAgg)
\* ------------------------------------------------------------------------
Channels ==
    {"consumption_v1", "consumption_v2", "consumption_v3",
     "production_v1", "production_v2", "production_v3"}

\* the sum of channel ch over the rows with index in S, in no order
RECURSIVE SumOver(_, _)
SumOver(S, ch) ==
    IF S = {} THEN 0
    ELSE LET i == CHOOSE j \in S : TRUE IN hourly[i][ch] + SumOver(S \ {i}, ch)

DatesPresent == {DateOf(hourly[i].timestamp) : i \in 1..Len(hourly)}

RowsOfDate(d) == {i \in 1..Len(hourly) : DateOf(hourly[i].timestamp) = d}

IsDailyTotals(t) ==
    /\ DOMAIN t = DatesPresent
    /\ \A d \in DatesPresent : \A ch \in Channels :
          t[d][ch] = SumOver(RowsOfDate(d), ch)

\* C7: the daily totals have one entry per date present in the input and
\* no other, each accumulator is the sum of its channel over the rows of
\* that date whatever their order, and TaskD and TaskE return the same.
C7_DailyTotals ==
    /\ (d_done = Len(hourly)) => IsDailyTotals(daily_totals)
    /\ (e_done = Len(hourly)) => IsDailyTotals(daily)
    /\ (d_done = Len(hourly) /\ e_done = Len(hourly)) => daily_totals = daily

\* both have summed three rows of two dates
C7_Witness ==
    /\ Len(hourly) = 3
    /\ d_done = 3 /\ e_done = 3
    /\ Cardinality(DOMAIN daily_totals) = 2
    /\ Cardinality(DOMAIN daily) = 2

\* ------------------------------------------------------------------------
\* Properties of the date and weekday columns (checked under SpecFmt)
\* ------------------------------------------------------------------------
\* t is d in dd.mm.yyyy form: two digits, a dot, two digits, a dot, the year
IsDDMMYYYY(t, d) ==
    /\ Len(t) >= 7
    /\ AllDigits(SubSeq(t, 1, 2)) /\ DigitsVal(SubSeq(t, 1, 2)) = d.day
    /\ t[3] = "."
    /\ AllDigits(SubSeq(t, 4, 5)) /\ DigitsVal(SubSeq(t, 4, 5)) = d.month
    /\ t[6] = "."
    /\ AllDigits(SubSeq(t, 7, Len(t))) /\ DigitsVal(SubSeq(t, 7, Len(t))) = d.year

\* C5: every date a script renders is in dd.mm.yyyy form.
C5_DatesAreDDMMYYYY ==
    \A t \in {a_finnish_day, b_date, d_date_str, e_date_str, f_date} :
        t # <<>> => IsDDMMYYYY(t, the_day)

FinnishNames ==
    <<"Maanantai", "Tiistai", "Keskiviikko", "Torstai", "Perjantai",
      "Lauantai", "Sunnuntai">>

\* the weekday index of the dates of the week 6.10.2025-12.10.2025
KnownWeekday(d) == d.day - 6

InKnownWeek(d) == d.year = 2025 /\ d.month = 10 /\ d.day \in 6..12

\* C8: for each weekday index 0..6 the name is Maanantai .. Sunnuntai, from
\* TaskD get_finnish_weekday as from TaskE WEEKDAY_NAMES.
C8_WeekdayNames ==
    /\ (d_weekday # "" /\ InKnownWeek(the_day))
          => d_weekday = FinnishNames[KnownWeekday(the_day) + 1]
    /\ (e_weekday # "" /\ InKnownWeek(the_day))
          => e_weekday = FinnishNames[KnownWeekday(the_day) + 1]
    /\ (d_weekday # "" /\ e_weekday # "") => d_weekday = e_weekday

\* both have named Sunday 12.10.2025
C8_Witness ==
    /\ the_day = Date(2025, 10, 12)
    /\ d_weekday = "Sunnuntai"
    /\ e_weekday = "Sunnuntai"

\* ------------------------------------------------------------------------
\* Properties of the kWh columns (checked under SpecKwh)
\* ------------------------------------------------------------------------
\* t shows total Wh in kWh: digits, a comma, two digits, no dot, and the
\* value is total / 1000 rounded to the hundredth
IsKwhText(t, total) ==
    LET p == Split(t, ",") IN
    /\ \A i \in 1..Len(t) : t[i] # "."
    /\ Len(p) = 2
    /\ Len(p[1]) >= 1 /\ AllDigits(p[1])
    /\ Len(p[2]) = 2 /\ AllDigits(p[2])
    /\ LET shown == 100 * DigitsVal(p[1]) + DigitsVal(p[2])
       IN  10 * shown - total \in -5..5

ConsChannels == <<"consumption_v1", "consumption_v2", "consumption_v3">>

ProdChannels == <<"production_v1", "production_v2", "production_v3">>

\* row shows the six totals of the day
RowShows(row, day, totals) ==
    /\ row.date_str = StrftimeDMY(day)
    /\ \A i \in 1..3 :
          /\ IsKwhText(LStrip(row.cons[i]), totals[ConsChannels[i]])
          /\ IsKwhText(LStrip(row.prod[i]), totals[ProdChannels[i]])

\* the rows show the totals of every day of the dict, and nothing else
RowsShow(rows, dict) ==
    /\ Len(rows) = Cardinality(DOMAIN dict)
    /\ \A d \in DOMAIN dict : \E k \in 1..Len(rows) : RowShows(rows[k], d, dict[d])

\* the sum of channel ch over every day of every week, in no order
RECURSIVE SumPairs(_, _)
SumPairs(P, ch) ==
    IF P = {} THEN 0
    ELSE LET x == CHOOSE y \in P : TRUE
         IN  week_summaries[x[1]][x[2]][ch] + SumPairs(P \ {x}, ch)

AllDays ==
    {<<i, d>> : i \in 1..Len(week_summaries), d \in KwhDates} \cap
    UNION {{<<i, d>> : d \in DOMAIN week_summaries[i]} : i \in 1..Len(week_summaries)}

\* line is label followed by the three totals of the channels chans
TotalLineShows(line, chans) ==
    LET p == Split(Tail(line), " ") IN
    /\ Len(p) = 3
    /\ \A i \in 1..3 : IsKwhText(p[i], SumPairs(AllDays, chans[i]))

\* C12: every Wh total (>= 0) is shown as total / 1000 rounded to two
\* decimals with a comma and no dot, in the rows of TaskD and TaskE, and the
\* TaskE "Total for all weeks" lines show the same for the sum of the daily
\* totals of all weeks per channel.
C12_KwhRendering ==
    /\ (k_script = "D" /\ k_pc = "done") => RowsShow(d_table, d_day_totals)
    /\ (k_script = "E" /\ k_pc = "done") =>
          /\ Len(summary_txt.weeks) = Len(week_summaries)
          /\ \A i \in 1..Len(week_summaries) :
                RowsShow(summary_txt.weeks[i].rows, week_summaries[i])
          /\ TotalLineShows(summary_txt.total[1], ConsChannels)
          /\ TotalLineShows(summary_txt.total[2], ProdChannels)

\* TaskD has printed 12340 Wh as 12,34 and 995 Wh as 0,99
C12_Witness ==
    /\ k_script = "D" /\ k_pc = "done"
    /\ Len(d_table) = 2
    /\ LStrip(d_table[1].cons[1]) = <<"1", "2", ",", "3", "4">>
    /\ LStrip(d_table[1].cons[2]) = <<"0", ",", "9", "9">>

\* ------------------------------------------------------------------------
\* Properties of the Paid line (checked under SpecPaid)
\* ------------------------------------------------------------------------
PaidLineOf(field) ==
    IF field = <<"T", "r", "u", "e">> THEN <<"Paid: ", "Yes">> ELSE <<"Paid: ", "No">>

\* C13: TaskA prints "Paid: Yes" exactly when field 7 is the text True and
\* "Paid: No" otherwise, which is the line TaskB prints for that field.
C13_PaidLine ==
    /\ (a_pc > 8 /\ Len(a_out) >= 8) => a_out[8] = PaidLineOf(a_parts[7])
    /\ (a_pc > 8 /\ b_pc > 8) => a_out[8] = b_out[8]

\* TaskB prints "Paid: Yes" exactly for the text True
TaskB_PaidLine ==
    (b_pc > 8) => b_out[8] = PaidLineOf(reservation[7])

====
